---- MODULE Spec2Model ----
(***************************************************************************)
(* A model of the IPTV playlist builder (src/3-build_playlist.py).         *)
(*                                                                         *)
(* Text is modelled character by character: a Python str is a sequence of  *)
(* one-character strings, so that the regular expressions, the splits and  *)
(* the replacements of the program are computed as the program computes    *)
(* them.  The program's module-level configuration values are variables,   *)
(* fixed at Init.                                                          *)
(***************************************************************************)
EXTENDS Integers, Sequences, FiniteSets, TLC

VARIABLES
    CLEAN_CHANNEL_NAMES,  \* src/3-build_playlist.py:39
    ADD_NUMERIC_PREFIX,   \* src/3-build_playlist.py:35
    GROUP_TITLE_MODE,     \* src/3-build_playlist.py:30
    pc,                   \* the position of the running function
    channel_name,         \* clean_channel_name: its argument
    cleaned,              \* clean_channel_name: the successive results
    channel_data,         \* the transformer: the matched record
    channel_number,       \* the transformer: the record's number
    extinf_steps,         \* the transformer: the descriptor line after each step
    wanted,               \* the matcher: the query
    all_channels,         \* parse_m3u's result
    ci,                   \* the matcher: the number of candidates scanned
    best_match_data,      \* the matcher: <<>> (None) or <<record>>
    channels_file,        \* main: <<>> (no file) or <<its lines>>
    source_content,       \* main: <<>> (the fetch failed) or <<the lines fetched>>
    wanted_channels,      \* load_wanted_channels' result
    idx,                  \* build_custom_playlist: the loops' index
    found_channels,       \* build_custom_playlist: the dict wanted -> data, number
    debug_matches,        \* build_custom_playlist: the diagnostics
    playlist_lines,       \* build_custom_playlist: the output lines
    output_file,          \* <<>> (not written in this run) or <<the lines written>>
    debug_file            \* <<>> (not written in this run) or <<the lines written>>

vars == <<CLEAN_CHANNEL_NAMES, ADD_NUMERIC_PREFIX, GROUP_TITLE_MODE, pc,
          channel_name, cleaned, channel_data, channel_number, extinf_steps,
          wanted, all_channels, ci, best_match_data, channels_file,
          source_content, wanted_channels, idx, found_channels, debug_matches,
          playlist_lines, output_file, debug_file>>

configVars == <<CLEAN_CHANNEL_NAMES, ADD_NUMERIC_PREFIX, GROUP_TITLE_MODE>>
cleanVars == <<channel_name, cleaned>>
transformVars == <<channel_data, channel_number, extinf_steps>>
matchVars == <<wanted, ci, best_match_data>>
mainVars == <<channels_file, source_content, wanted_channels, idx,
              found_channels, debug_matches, playlist_lines, output_file,
              debug_file>>

(***************************************************************************)
(* Python's str operations, on sequences of characters.                    *)
(***************************************************************************)
DQ == "\""

UpperCase == <<"A","B","C","D","E","F","G","H","I","J","K","L","M","N","O","P","Q","R","S","T","U","V","W","X","Y","Z">>

LowerCase == <<"a","b","c","d","e","f","g","h","i","j","k","l","m","n","o","p","q","r","s","t","u","v","w","x","y","z">>

DigitChars == <<"0","1","2","3","4","5","6","7","8","9">>

\* str.isspace of one character (the \s of re, the separators of str.split)
IsSpace(c) == c \in {" ", "\t"}

\* \d of re
IsDigit(c) == \E d \in 1..10 : DigitChars[d] = c

LowerChar(c) ==
    IF \E k \in 1..26 : UpperCase[k] = c
    THEN LowerCase[CHOOSE k \in 1..26 : UpperCase[k] = c]
    ELSE c

\* s.lower()
Lower(s) == [k \in 1..Len(s) |-> LowerChar(s[k])]

\* s[i-1:j] of Python, for 1-based i and j
Slice(s, i, j) == [k \in 1..(j - i + 1) |-> s[i + k - 1]]

\* s.startswith(p, i-1)
PrefixAt(s, p, i) ==
    /\ i + Len(p) - 1 <= Len(s)
    /\ \A k \in 1..Len(p) : s[i + k - 1] = p[k]

\* s.startswith(p)
StartsWith(s, p) == PrefixAt(s, p, 1)

\* s.endswith(p)
EndsWith(s, p) == Len(p) <= Len(s) /\ PrefixAt(s, p, Len(s) - Len(p) + 1)

\* s.find(p) + 1: the first place of p in s, 0 when there is none
Find(s, p) ==
    IF \E i \in 1..(Len(s) - Len(p) + 1) : PrefixAt(s, p, i)
    THEN CHOOSE i \in 1..(Len(s) - Len(p) + 1) :
             /\ PrefixAt(s, p, i)
             /\ \A j \in 1..(i - 1) : ~PrefixAt(s, p, j)
    ELSE 0

\* p in s
Contains(s, p) == \E i \in 1..(Len(s) - Len(p) + 1) : PrefixAt(s, p, i)

\* s.replace(old, new, 1)
ReplaceFirst(s, old, new) ==
    LET i == Find(s, old)
    IN  IF i = 0 THEN s
        ELSE Slice(s, 1, i - 1) \o new \o Slice(s, i + Len(old), Len(s))

\* s.replace(c, ''), for one character c
RemoveChar(s, c) == SelectSeq(s, LAMBDA x : x # c)

\* the first place >= i of s that holds no white space (Len(s) + 1: none)
RECURSIVE SkipSpaces(_, _)
SkipSpaces(s, i) ==
    IF i <= Len(s) /\ IsSpace(s[i]) THEN SkipSpaces(s, i + 1) ELSE i

\* the first place >= i of s that holds no digit
RECURSIVE SkipDigits(_, _)
SkipDigits(s, i) ==
    IF i <= Len(s) /\ IsDigit(s[i]) THEN SkipDigits(s, i + 1) ELSE i

\* the last place <= j of s that holds no white space (0: none)
RECURSIVE SkipSpacesBack(_, _)
SkipSpacesBack(s, j) ==
    IF j >= 1 /\ IsSpace(s[j]) THEN SkipSpacesBack(s, j - 1) ELSE j

\* s.strip()
Strip(s) == Slice(s, SkipSpaces(s, 1), SkipSpacesBack(s, Len(s)))

\* the first place >= i of s that holds c (0: none)
RECURSIVE FindChar(_, _, _)
FindChar(s, c, i) ==
    IF i > Len(s) THEN 0
    ELSE IF s[i] = c THEN i
    ELSE FindChar(s, c, i + 1)

\* s without its first i - 1 characters, each run of white space made one space
RECURSIVE Collapse(_, _)
Collapse(s, i) ==
    IF i > Len(s) THEN <<>>
    ELSE IF IsSpace(s[i])
         THEN LET k == SkipSpaces(s, i)
              IN  IF k > Len(s) THEN <<>> ELSE <<" ">> \o Collapse(s, k)
         ELSE <<s[i]>> \o Collapse(s, i + 1)

\* ' '.join(s.split()): the words of s, one space between two
JoinWords(s) == Collapse(Strip(s), 1)

\* str(n), for n >= 0
RECURSIVE Str(_)
Str(n) == IF n < 10 THEN <<DigitChars[n + 1]>>
          ELSE Str(n \div 10) \o <<DigitChars[(n % 10) + 1]>>

\* f"{n:03d}", for n >= 0
Pad3(n) ==
    LET d == Str(n)
    IN  IF Len(d) >= 3 THEN d
        ELSE [k \in 1..(3 - Len(d)) |-> "0"] \o d

\* s.split(',', 1): <<s>> without a comma, else the text before and after the first
SplitComma(s) ==
    LET i == FindChar(s, ",", 1)
    IN  IF i = 0 THEN <<s>>
        ELSE <<Slice(s, 1, i - 1), Slice(s, i + 1, Len(s))>>

(***************************************************************************)
(* clean_channel_name                                                      *)
(***************************************************************************)
\* the place of the ")" that ends a match of \(\d+p\) at k (0: no match)
ResolutionEnd(s, k) ==
    IF k <= Len(s) /\ s[k] = "("
    THEN LET d == SkipDigits(s, k + 1)
         IN  IF d > k + 1 /\ d + 1 <= Len(s) /\ s[d] = "p" /\ s[d + 1] = ")"
             THEN d + 1
             ELSE 0
    ELSE 0

\* re.sub(r'\s*\(\d+p\)', '', s), from place i on
RECURSIVE SubResolution(_, _)
SubResolution(s, i) ==
    IF i > Len(s) THEN <<>>
    ELSE LET e == ResolutionEnd(s, SkipSpaces(s, i))
         IN  IF e > 0 THEN SubResolution(s, e + 1)
             ELSE <<s[i]>> \o SubResolution(s, i + 1)

\* the place of the "]" that ends a match of \[.*?\] at k (0: no match)
TagEnd(s, k) ==
    IF k <= Len(s) /\ s[k] = "[" THEN FindChar(s, "]", k + 1) ELSE 0

\* re.sub(r'\s*\[.*?\]', '', s), from place i on
RECURSIVE SubTag(_, _)
SubTag(s, i) ==
    IF i > Len(s) THEN <<>>
    ELSE LET e == TagEnd(s, SkipSpaces(s, i))
         IN  IF e > 0 THEN SubTag(s, e + 1)
             ELSE <<s[i]>> \o SubTag(s, i + 1)

\* clean_channel_name with CLEAN_CHANNEL_NAMES = flag
CleanWith(flag, name) ==
    IF ~flag THEN name
    ELSE Strip(JoinWords(SubTag(SubResolution(name, 1), 1)))

clean_channel_name(name) == CleanWith(CLEAN_CHANNEL_NAMES, name)

(***************************************************************************)
(* The parser's name and the transformer's steps                           *)
(***************************************************************************)
S_EXTINF == <<"#","E","X","T","I","N","F">>

S_EXTINF_1 == <<"#","E","X","T","I","N","F",":","-","1">>

S_EXTINF_1_SP == <<"#","E","X","T","I","N","F",":","-","1"," ">>

S_EXTINF_1_CHNO == <<"#","E","X","T","I","N","F",":","-","1"," ","t","v","g","-","c","h","n","o","=">>

S_TVG_CHNO == <<"t","v","g","-","c","h","n","o","=","\"">>

S_GROUP_TITLE == <<"g","r","o","u","p","-","t","i","t","l","e","=","\"">>

S_HTTP == <<"h","t","t","p">>

S_EXTM3U == <<"#","E","X","T","M","3","U">>

UNIQUE_GROUP_NAME == <<"T","D","T"," ","E","s","p","a","ñ","a">>

S_Nacionales == <<"N","a","c","i","o","n","a","l","e","s">>

S_Entretenimiento == <<"E","n","t","r","e","t","e","n","i","m","i","e","n","t","o">>

S_Autonomicos == <<"A","u","t","o","n","ó","m","i","c","o","s">>

S_Tematicos == <<"T","e","m","á","t","i","c","o","s">>

extract_channel_name(extinf_line) ==
    IF Contains(extinf_line, <<",">>)
    THEN Strip(SplitComma(extinf_line)[2])
    ELSE <<>>

clean_url(url) ==
    LET u1 == Strip(url)
        u2 == IF StartsWith(u1, <<"[">>) /\ EndsWith(u1, <<"]">>)
              THEN Slice(u1, 2, Len(u1) - 1)
              ELSE u1
    IN  Strip(RemoveChar(RemoveChar(u2, "["), "]"))

\* re.sub(key + r'[^"]*"\s*', '', s), from place i on; key ends with the opening quote
RECURSIVE SubAttribute(_, _, _)
SubAttribute(s, key, i) ==
    IF i > Len(s) THEN <<>>
    ELSE LET q == IF PrefixAt(s, key, i) THEN FindChar(s, DQ, i + Len(key)) ELSE 0
         IN  IF q > 0 THEN SubAttribute(s, key, SkipSpaces(s, q + 1))
             ELSE <<s[i]>> \o SubAttribute(s, key, i + 1)

\* f'#EXTINF:-1 tvg-chno="{channel_number}" '
ChnoToken(number) == S_EXTINF_1_SP \o S_TVG_CHNO \o Str(number) \o <<DQ, " ">>

add_channel_number_to_extinf(extinf_line, number) ==
    LET l1 == SubAttribute(extinf_line, S_TVG_CHNO, 1)
        l2 == ReplaceFirst(l1, S_EXTINF_1_SP, ChnoToken(number))
        l3 == IF ~Contains(l2, S_EXTINF_1_CHNO)
              THEN ReplaceFirst(l2, S_EXTINF_1, ChnoToken(number))
              ELSE l2
    IN  IF StartsWith(l1, S_EXTINF_1) THEN l3 ELSE l1

add_channel_prefix_to_name(extinf_line, number) ==
    IF ~ADD_NUMERIC_PREFIX THEN extinf_line
    ELSE IF Contains(extinf_line, <<",">>)
         THEN LET parts == SplitComma(extinf_line)
              IN  parts[1] \o <<",">> \o Pad3(number) \o <<".", " ">> \o Strip(parts[2])
         ELSE extinf_line

clean_extinf_channel_name(extinf_line) ==
    IF ~CLEAN_CHANNEL_NAMES THEN extinf_line
    ELSE IF Contains(extinf_line, <<",">>)
         THEN LET parts == SplitComma(extinf_line)
              IN  parts[1] \o <<",">> \o clean_channel_name(Strip(parts[2]))
         ELSE extinf_line

\* the group of the "custom" mode
CustomGroup(number) ==
    IF number <= 8 THEN S_Nacionales
    ELSE IF number <= 18 THEN S_Entretenimiento
    ELSE IF number <= 33 THEN S_Autonomicos
    ELSE S_Tematicos

\* normalize_group_title(extinf_line, channel_number, mode, custom_name)
NormalizeGroupTitle(extinf_line, number, mode, custom_name) ==
    LET removed == SubAttribute(extinf_line, S_GROUP_TITLE, 1)
        new_group == IF mode = "unique" THEN custom_name
                     ELSE IF mode = "custom" THEN CustomGroup(number)
                     ELSE custom_name
    IN  IF mode = "original" THEN extinf_line
        ELSE IF mode = "none" THEN removed
        ELSE IF Contains(removed, <<",">>)
             THEN LET parts == SplitComma(removed)
                  IN  parts[1] \o <<" ">> \o S_GROUP_TITLE \o new_group
                          \o <<DQ, ",">> \o parts[2]
             ELSE removed

\* normalize_group_title(extinf_line, channel_number): the defaults of the program
normalize_group_title(extinf_line, number) ==
    NormalizeGroupTitle(extinf_line, number, GROUP_TITLE_MODE, UNIQUE_GROUP_NAME)

\* the four steps of build_custom_playlist on one matched record
Transform(extinf_line, number) ==
    normalize_group_title(
        add_channel_prefix_to_name(
            clean_extinf_channel_name(
                add_channel_number_to_extinf(extinf_line, number)),
            number),
        number)

(***************************************************************************)
(* The matcher: match_channel_strict and the scan of build_custom_playlist *)
(***************************************************************************)
\* the test of match_channel_strict that returns True (0: it returns False)
\*   1 exact, 2 case-insensitive, 3 one inside the other, 4 equal once cleaned
TierOf(available_name, wanted_name) ==
    LET avail == Strip(available_name)
        want == Strip(wanted_name)
    IN  IF avail = want THEN 1
        ELSE IF Lower(avail) = Lower(want) THEN 2
        ELSE IF Contains(Lower(avail), Lower(want)) THEN 3
        ELSE IF Contains(Lower(want), Lower(avail)) THEN 3
        ELSE IF Lower(clean_channel_name(avail)) = Lower(clean_channel_name(want))
             THEN 4
        ELSE 0

match_channel_strict(available_name, wanted_name) ==
    TierOf(available_name, wanted_name) # 0

\* one candidate of the scan: best is <<>> (None) or <<the best record so far>>
UpdateBest(best, data, wanted_name) ==
    IF /\ match_channel_strict(data.name, wanted_name)
       /\ (best = <<>> \/ Len(data.name) < Len(best[1].name))
    THEN <<data>>
    ELSE best

\* best_match_data after the scan of the first n candidates
RECURSIVE ScanBest(_, _, _)
ScanBest(channels, wanted_name, n) ==
    IF n = 0 THEN <<>>
    ELSE UpdateBest(ScanBest(channels, wanted_name, n - 1), channels[n], wanted_name)

\* best_match_data after the scan of all candidates
BestMatch(channels, wanted_name) == ScanBest(channels, wanted_name, Len(channels))

(***************************************************************************)
(* The inputs                                                              *)
(***************************************************************************)
\* the sequences over S of at most n elements
SeqsUpTo(S, n) == UNION {[1..k -> S] : k \in 0..n}

\* the record parse_m3u appends for a descriptor line and the line after it
Record(extinf_line, url_line) ==
    [extinf |-> extinf_line, url |-> url_line,
     name |-> extract_channel_name(extinf_line)]

\* the concatenation of a sequence of strings
RECURSIVE Concat(_)
Concat(ss) == IF ss = <<>> THEN <<>> ELSE Head(ss) \o Concat(Tail(ss))

GroupTitleModes == {"unique", "custom", "original", "none"}

IdleClean == channel_name = <<>> /\ cleaned = <<>>

IdleTransform == channel_data = <<>> /\ channel_number = 0 /\ extinf_steps = <<>>

IdleMatch == wanted = <<>> /\ ci = 0 /\ best_match_data = <<>>

IdleMain ==
    /\ channels_file = <<>>
    /\ source_content = <<>>
    /\ wanted_channels = <<>>
    /\ idx = 0
    /\ found_channels = <<>>
    /\ debug_matches = <<>>
    /\ playlist_lines = <<>>
    /\ output_file = <<>>
    /\ debug_file = <<>>

(***************************************************************************)
(* SpecClean: clean_channel_name applied to a name, then to its own result *)
(***************************************************************************)
MaxNameLen == 6

CleanCalls == 2

NameAlphabet == {"a", " ", "(", "1", "p", ")", "[", "]"}

InitClean ==
    /\ CLEAN_CHANNEL_NAMES \in BOOLEAN
    /\ ADD_NUMERIC_PREFIX = TRUE
    /\ GROUP_TITLE_MODE = "unique"
    /\ pc = "clean"
    /\ channel_name \in SeqsUpTo(NameAlphabet, MaxNameLen)
    /\ cleaned = <<>>
    /\ all_channels = <<>>
    /\ IdleTransform /\ IdleMatch /\ IdleMain

\* a call of clean_channel_name: on the name first, then on the last result
CleanCall ==
    /\ pc = "clean"
    /\ Len(cleaned) < CleanCalls
    /\ cleaned' = Append(cleaned,
                     clean_channel_name(IF cleaned = <<>> THEN channel_name
                                        ELSE cleaned[Len(cleaned)]))
    /\ UNCHANGED <<configVars, pc, channel_name, transformVars, matchVars,
                   all_channels, mainVars>>

NextClean == CleanCall

SpecClean == InitClean /\ [][NextClean]_vars

(***************************************************************************)
(* SpecTransform: the steps of build_custom_playlist on one matched record *)
(***************************************************************************)
MaxAttrs == 2

LineHeads == {S_EXTINF_1, <<"#","E","X","T","I","N","F",":","0">>}

LineAttributes ==
    { <<" ","t","v","g","-","c","h","n","o","=","\"","7","\"">>,
      <<" ","g","r","o","u","p","-","t","i","t","l","e","=","\"","G","\"">>,
      <<" ","g","r","o","u","p","-","t","i","t","l","e","=","\"","A",",","B","\"">>,
      <<" ","t","v","g","-","i","d","=","\"","x","\"">> }

\* what follows the attributes: nothing, or a comma and the name
LineTails ==
    { <<>>,
      <<",","a">>,
      <<",","a"," ","(","1","p",")">>,
      <<",","a",","," ","b">> }

DescriptorLines ==
    { h \o Concat(attrs) \o t :
        h \in LineHeads, attrs \in SeqsUpTo(LineAttributes, MaxAttrs), t \in LineTails }

UrlLines ==
    { <<"h","t","t","p",":","/","/","u">>,
      <<"[","h","t","t","p",":","/","/","u","[","1","]","]">> }

ChannelNumbers == {1, 2, 12, 19, 34}

InitTransform ==
    /\ CLEAN_CHANNEL_NAMES \in BOOLEAN
    /\ ADD_NUMERIC_PREFIX \in BOOLEAN
    /\ GROUP_TITLE_MODE \in GroupTitleModes
    /\ pc = "tvg_chno"
    /\ \E l \in DescriptorLines, u \in UrlLines : channel_data = Record(l, u)
    /\ channel_number \in ChannelNumbers
    /\ extinf_steps = <<>>
    /\ all_channels = <<>>
    /\ IdleClean /\ IdleMatch /\ IdleMain

\* 1. extinf_with_number = add_channel_number_to_extinf(...)
StepChannelNumber ==
    /\ pc = "tvg_chno"
    /\ extinf_steps' = <<add_channel_number_to_extinf(channel_data.extinf,
                                                      channel_number)>>
    /\ pc' = "clean_name"
    /\ UNCHANGED <<configVars, cleanVars, channel_data, channel_number,
                   matchVars, all_channels, mainVars>>

\* 2. extinf_cleaned = clean_extinf_channel_name(extinf_with_number)
StepCleanName ==
    /\ pc = "clean_name"
    /\ extinf_steps' = Append(extinf_steps, clean_extinf_channel_name(extinf_steps[1]))
    /\ pc' = "prefix"
    /\ UNCHANGED <<configVars, cleanVars, channel_data, channel_number,
                   matchVars, all_channels, mainVars>>

\* 3. extinf_with_prefix = add_channel_prefix_to_name(extinf_cleaned, channel_number)
StepPrefix ==
    /\ pc = "prefix"
    /\ extinf_steps' = Append(extinf_steps,
                          add_channel_prefix_to_name(extinf_steps[2], channel_number))
    /\ pc' = "group_title"
    /\ UNCHANGED <<configVars, cleanVars, channel_data, channel_number,
                   matchVars, all_channels, mainVars>>

\* 4. extinf_final = normalize_group_title(extinf_with_prefix, channel_number)
StepGroupTitle ==
    /\ pc = "group_title"
    /\ extinf_steps' = Append(extinf_steps,
                          normalize_group_title(extinf_steps[3], channel_number))
    /\ pc' = "append"
    /\ UNCHANGED <<configVars, cleanVars, channel_data, channel_number,
                   matchVars, all_channels, mainVars>>

\* 5. the descriptor line and the cleaned URL are appended to playlist_lines
StepAppend ==
    /\ pc = "append"
    /\ playlist_lines' = playlist_lines
                            \o <<extinf_steps[4], clean_url(channel_data.url)>>
    /\ pc' = "transformed"
    /\ UNCHANGED <<configVars, cleanVars, transformVars, matchVars, all_channels,
                   channels_file, source_content, wanted_channels, idx,
                   found_channels, debug_matches, output_file, debug_file>>

NextTransform ==
    \/ StepChannelNumber
    \/ StepCleanName
    \/ StepPrefix
    \/ StepGroupTitle
    \/ StepAppend

SpecTransform == InitTransform /\ [][NextTransform]_vars

(***************************************************************************)
(* SpecMatch: the scan of the candidates for one wanted name               *)
(***************************************************************************)
MaxCandidates == 2

NameBases == {<<"a">>, <<"a","b">>, <<"A","B">>, <<"b">>}

NameSuffixes == {<<>>, <<" ","(","1","p",")">>, <<" ","[","b","]">>}

MatchNames == {b \o x : b \in NameBases, x \in NameSuffixes}

\* the descriptor lines of the candidates: with a name, or without a comma
CandidateLines == {S_EXTINF_1 \o <<",">> \o n : n \in MatchNames} \cup {S_EXTINF_1}

\* the records of the lines ls, each with the URL of its place
RecordsOf(ls) == [k \in 1..Len(ls) |-> Record(ls[k], S_HTTP \o Str(k))]

InitMatch ==
    /\ CLEAN_CHANNEL_NAMES \in BOOLEAN
    /\ ADD_NUMERIC_PREFIX = TRUE
    /\ GROUP_TITLE_MODE = "unique"
    /\ pc = "scan"
    /\ wanted \in MatchNames
    /\ \E ls \in SeqsUpTo(CandidateLines, MaxCandidates) : all_channels = RecordsOf(ls)
    /\ ci = 0
    /\ best_match_data = <<>>
    /\ IdleClean /\ IdleTransform /\ IdleMain

\* one turn of "for channel_data in all_channels"
ScanCandidate ==
    /\ pc = "scan"
    /\ ci < Len(all_channels)
    /\ ci' = ci + 1
    /\ best_match_data' = UpdateBest(best_match_data, all_channels[ci + 1], wanted)
    /\ UNCHANGED <<configVars, pc, cleanVars, transformVars, wanted, all_channels,
                   mainVars>>

\* the scan is over: best_match_data is the answer
ScanDone ==
    /\ pc = "scan"
    /\ ci = Len(all_channels)
    /\ pc' = "matched"
    /\ UNCHANGED <<configVars, cleanVars, transformVars, matchVars, all_channels,
                   mainVars>>

NextMatch == ScanCandidate \/ ScanDone

SpecMatch == InitMatch /\ [][NextMatch]_vars

(***************************************************************************)
(* Spec: main, from the wanted list to the saved playlist                  *)
(***************************************************************************)
\* load_wanted_channels on the lines of the file
LoadWanted(lines) ==
    SelectSeq([k \in 1..Len(lines) |-> Strip(lines[k])],
              LAMBDA l : l # <<>> /\ ~StartsWith(l, <<"#">>))

\* parse_m3u on lines, from place i on
RECURSIVE ParseFrom(_, _)
ParseFrom(lines, i) ==
    IF i > Len(lines) THEN <<>>
    ELSE LET line == Strip(lines[i])
         IN  IF StartsWith(line, S_EXTINF) /\ i + 1 <= Len(lines)
             THEN LET url_line == Strip(lines[i + 1])
                  IN  IF url_line # <<>> /\ StartsWith(url_line, S_HTTP)
                      THEN <<Record(line, url_line)>> \o ParseFrom(lines, i + 2)
                      ELSE ParseFrom(lines, i + 1)
             ELSE ParseFrom(lines, i + 1)

\* parse_m3u(content), content given as content.split('\n')
parse_m3u(lines) == ParseFrom(lines, 1)

\* found_channels[wanted_name] = {'data': ..., 'number': ...}
SetFound(found, wanted_name, data, number) ==
    [w \in DOMAIN found \cup {wanted_name} |->
        IF w = wanted_name THEN [data |-> data, number |-> number] ELSE found[w]]

\* the entry of debug_matches for the wanted name at place number
DebugEntry(number, wanted_name, best) ==
    IF best # <<>>
    THEN [number |-> number, found |-> TRUE, wanted |-> wanted_name,
          best_match |-> best[1].name]
    ELSE [number |-> number, found |-> FALSE, wanted |-> wanted_name,
          best_match |-> <<>>]

\* WriteTurn as a loop over the keys of found_channels would do it: a wanted name
\* that occurs twice is written once
WriteTurnOncePerKey(lines, found, wanted_name) ==
    IF wanted_name \in DOMAIN found
    THEN LET line == Transform(found[wanted_name].data.extinf,
                               found[wanted_name].number)
         IN  IF \E j \in 1..Len(lines) : lines[j] = line THEN lines
             ELSE lines \o <<line, clean_url(found[wanted_name].data.url)>>
    ELSE lines

\* WriteTurn as a loop that put the lines of each name right after the header
WriteTurnNewestFirst(lines, found, wanted_name) ==
    IF wanted_name \in DOMAIN found
    THEN <<Head(lines)>> \o
         <<Transform(found[wanted_name].data.extinf, found[wanted_name].number),
           clean_url(found[wanted_name].data.url)>> \o Tail(lines)
    ELSE lines

\* one turn of the second loop: the two lines of a wanted name that was found
WriteTurn(lines, found, wanted_name) ==
    IF wanted_name \in DOMAIN found
    THEN lines \o <<Transform(found[wanted_name].data.extinf,
                              found[wanted_name].number),
                    clean_url(found[wanted_name].data.url)>>
    ELSE lines

MaxWantedLines == 3

MaxEntries == 2

\* the lines channels_list.txt may hold: two names, a comment, a blank line
WantedFileLines == {<<"a">>, <<"z","z">>, <<"#","a">>, <<>>}

SourceDescriptors ==
    { <<"#","E","X","T","I","N","F",":","-","1"," ","g","r","o","u","p","-","t","i","t","l","e","=","\"","G","\"",",","z","z"," ","(","1","p",")">>,
      <<"#","E","X","T","I","N","F",":","-","1",",","A">>,
      <<"#","E","X","T","I","N","F",":","-","1"," ","g","r","o","u","p","-","t","i","t","l","e","=","\"","G","\"">> }

\* the text of a source playlist: the header, then each descriptor and its URL
SourceText(ds) ==
    <<S_EXTM3U>> \o
    Concat([k \in 1..Len(ds) |-> <<ds[k], S_HTTP \o <<"[">> \o Str(k) \o <<"]">>>>])

\* the descriptor lists of the playlists fetched: each descriptor at most once
SourceLists ==
    { ds \in SeqsUpTo(SourceDescriptors, MaxEntries) :
        \A i, j \in 1..Len(ds) : i # j => ds[i] # ds[j] }

\* what the fetch returns: None (<<>>), the empty text, or a playlist
FetchResults ==
    {<<>>, <<<<>>>>} \cup {SourceText(ds) : ds \in SourceLists}

\* what the files hold before the run
PreviousFile == <<<<"o","l","d">>>>

\* what the debug file holds before the run: an entry no run writes
PreviousDebugFile ==
    <<[number |-> 0, found |-> FALSE, wanted |-> <<"o","l","d">>, best_match |-> <<>>]>>

Init ==
    /\ CLEAN_CHANNEL_NAMES \in BOOLEAN
    /\ ADD_NUMERIC_PREFIX \in BOOLEAN
    /\ GROUP_TITLE_MODE = "unique"
    /\ pc = "load"
    /\ channels_file \in {<<>>} \cup {<<f>> : f \in SeqsUpTo(WantedFileLines, MaxWantedLines)}
    /\ source_content = <<>>
    /\ wanted_channels = <<>>
    /\ idx = 0
    /\ found_channels = <<>>
    /\ debug_matches = <<>>
    /\ playlist_lines = <<>>
    /\ output_file = PreviousFile
    /\ debug_file = PreviousDebugFile
    /\ all_channels = <<>>
    /\ IdleClean /\ IdleTransform /\ IdleMatch

\* 1. wanted_channels = load_wanted_channels(); main returns when it is empty
LoadWantedChannels ==
    /\ pc = "load"
    /\ wanted_channels' = IF channels_file = <<>> THEN <<>>
                          ELSE LoadWanted(channels_file[1])
    /\ pc' = IF wanted_channels' = <<>> THEN "returned" ELSE "fetch"
    /\ UNCHANGED <<configVars, cleanVars, transformVars, matchVars, all_channels,
                   channels_file, source_content, idx, found_channels,
                   debug_matches, playlist_lines, output_file, debug_file>>

\* FetchSourcePlaylist as a main that goes on whatever the fetch returned
FetchSourcePlaylistUnchecked ==
    /\ pc = "fetch"
    /\ \E text \in FetchResults :
        /\ source_content' = text
        /\ pc' = "parse"
    /\ UNCHANGED <<configVars, cleanVars, transformVars, matchVars, all_channels,
                   channels_file, wanted_channels, idx, found_channels,
                   debug_matches, playlist_lines, output_file, debug_file>>

\* 2. source_content = fetch_source_playlist(); main returns when it is falsy
FetchSourcePlaylist ==
    /\ pc = "fetch"
    /\ \E text \in FetchResults :
        /\ source_content' = text
        /\ pc' = IF text = <<>> \/ text = <<<<>>>> THEN "returned" ELSE "parse"
    /\ UNCHANGED <<configVars, cleanVars, transformVars, matchVars, all_channels,
                   channels_file, wanted_channels, idx, found_channels,
                   debug_matches, playlist_lines, output_file, debug_file>>

\* 3. all_channels = parse_m3u(source_content); build_custom_playlist starts
ParseSource ==
    /\ pc = "parse"
    /\ all_channels' = parse_m3u(source_content)
    /\ playlist_lines' = <<S_EXTM3U>>
    /\ found_channels' = <<>>
    /\ debug_matches' = <<>>
    /\ idx' = 0
    /\ pc' = "match"
    /\ UNCHANGED <<configVars, cleanVars, transformVars, matchVars, channels_file,
                   source_content, wanted_channels, output_file, debug_file>>

\* one turn of the first loop of build_custom_playlist
MatchWanted ==
    /\ pc = "match"
    /\ idx < Len(wanted_channels)
    /\ LET number == idx + 1
           wanted_name == wanted_channels[number]
           best == BestMatch(all_channels, wanted_name)
       IN  /\ found_channels' = IF best # <<>>
                                THEN SetFound(found_channels, wanted_name,
                                              best[1], number)
                                ELSE found_channels
           /\ debug_matches' = Append(debug_matches,
                                      DebugEntry(number, wanted_name, best))
           /\ idx' = IF number = Len(wanted_channels) THEN 0 ELSE number
           /\ pc' = IF number = Len(wanted_channels) THEN "write" ELSE "match"
    /\ UNCHANGED <<configVars, cleanVars, transformVars, matchVars, all_channels,
                   channels_file, source_content, wanted_channels,
                   playlist_lines, output_file, debug_file>>

\* one turn of the second loop of build_custom_playlist
WriteWanted ==
    /\ pc = "write"
    /\ idx < Len(wanted_channels)
    /\ playlist_lines' = WriteTurn(playlist_lines, found_channels,
                                   wanted_channels[idx + 1])
    /\ idx' = idx + 1
    /\ pc' = IF idx + 1 = Len(wanted_channels) THEN "debug" ELSE "write"
    /\ UNCHANGED <<configVars, cleanVars, transformVars, matchVars, all_channels,
                   channels_file, source_content, wanted_channels,
                   found_channels, debug_matches, output_file, debug_file>>

\* the debug log is written; build_custom_playlist returns
SaveDebug ==
    /\ pc = "debug"
    /\ debug_file' = debug_matches
    /\ pc' = "save"
    /\ UNCHANGED <<configVars, cleanVars, transformVars, matchVars, all_channels,
                   channels_file, source_content, wanted_channels, idx,
                   found_channels, debug_matches, playlist_lines, output_file>>

\* 5. save_playlist(custom_playlist) writes the file
SavePlaylist ==
    /\ pc = "save"
    /\ output_file' = playlist_lines
    /\ pc' = "saved"
    /\ UNCHANGED <<configVars, cleanVars, transformVars, matchVars, all_channels,
                   channels_file, source_content, wanted_channels, idx,
                   found_channels, debug_matches, playlist_lines, debug_file>>

\* 5. save_playlist meets an IOError: the file is as it was, or was emptied by open
SavePlaylistError ==
    /\ pc = "save"
    /\ output_file' \in {output_file, <<>>}
    /\ pc' = "save_failed"
    /\ UNCHANGED <<configVars, cleanVars, transformVars, matchVars, all_channels,
                   channels_file, source_content, wanted_channels, idx,
                   found_channels, debug_matches, playlist_lines, debug_file>>

Next ==
    \/ LoadWantedChannels
    \/ FetchSourcePlaylist
    \/ ParseSource
    \/ MatchWanted
    \/ WriteWanted
    \/ SaveDebug
    \/ SavePlaylist
    \/ SavePlaylistError

Spec == Init /\ [][Next]_vars

(***************************************************************************)
(* SpecParse: the loop of parse_m3u, turn by turn, on a text of few lines  *)
(***************************************************************************)
\* ParseTurn as a scan that steps over the line after every descriptor line
ParseTurnSkipsNext(lines, i, channels) ==
    LET line == Strip(lines[i + 1])
    IN  IF StartsWith(line, S_EXTINF)
        THEN IF i + 1 < Len(lines)
             THEN LET url_line == Strip(lines[i + 2])
                  IN  IF url_line # <<>> /\ StartsWith(url_line, S_HTTP)
                      THEN [i |-> i + 2,
                            channels |-> Append(channels, Record(line, url_line))]
                      ELSE [i |-> i + 2, channels |-> channels]
             ELSE [i |-> i + 1, channels |-> channels]
        ELSE [i |-> i + 1, channels |-> channels]

\* one turn of "while i < len(lines)": the new i (0-based, as in the code) and
\* the new channels
ParseTurn(lines, i, channels) ==
    LET line == Strip(lines[i + 1])
    IN  IF StartsWith(line, S_EXTINF)
        THEN IF i + 1 < Len(lines)
             THEN LET url_line == Strip(lines[i + 2])
                  IN  IF url_line # <<>> /\ StartsWith(url_line, S_HTTP)
                      THEN [i |-> i + 2,
                            channels |-> Append(channels, Record(line, url_line))]
                      ELSE [i |-> i + 1, channels |-> channels]
             ELSE [i |-> i + 1, channels |-> channels]
        ELSE [i |-> i + 1, channels |-> channels]

MaxParseLines == 4

\* the lines of the text: descriptor lines, address lines, and others
ParseLines ==
    { <<"#","E","X","T","I","N","F",":","-","1",",","a">>,
      <<" ","#","E","X","T","I","N","F",":","-","1",",","b"," ">>,
      <<"h","t","t","p",":","/","/","u">>,
      <<" ","h","t","t","p",":","/","/","v"," ">>,
      <<"f","t","p",":","/","/","w">>,
      <<"#","E","X","T","M","3","U">>,
      <<" ">> }

InitParse ==
    /\ CLEAN_CHANNEL_NAMES = TRUE
    /\ ADD_NUMERIC_PREFIX = TRUE
    /\ GROUP_TITLE_MODE = "unique"
    /\ pc = "parse_line"
    /\ source_content \in SeqsUpTo(ParseLines, MaxParseLines) \ {<<>>}
    /\ idx = 0
    /\ all_channels = <<>>
    /\ channels_file = <<>>
    /\ wanted_channels = <<>>
    /\ found_channels = <<>>
    /\ debug_matches = <<>>
    /\ playlist_lines = <<>>
    /\ output_file = <<>>
    /\ debug_file = <<>>
    /\ IdleClean /\ IdleTransform /\ IdleMatch

\* one turn of the loop of parse_m3u
ParseLine ==
    /\ pc = "parse_line"
    /\ idx < Len(source_content)
    /\ LET turn == ParseTurn(source_content, idx, all_channels)
       IN  /\ idx' = turn.i
           /\ all_channels' = turn.channels
    /\ UNCHANGED <<configVars, pc, cleanVars, transformVars, matchVars,
                   channels_file, source_content, wanted_channels,
                   found_channels, debug_matches, playlist_lines, output_file,
                   debug_file>>

\* the loop is over: parse_m3u returns channels
ParseReturn ==
    /\ pc = "parse_line"
    /\ idx >= Len(source_content)
    /\ pc' = "parsed"
    /\ UNCHANGED <<configVars, cleanVars, transformVars, matchVars, all_channels,
                   mainVars>>

NextParse == ParseLine \/ ParseReturn

SpecParse == InitParse /\ [][NextParse]_vars

(***************************************************************************)
(* The properties                                                          *)
(***************************************************************************)
\* the number of places of s where p occurs
CountOf(s, p) == Cardinality({i \in 1..Len(s) : PrefixAt(s, p, i)})

\* the place of the last comma of s (0: none)
LastComma(s) ==
    IF \E i \in 1..Len(s) : s[i] = ","
    THEN CHOOSE i \in 1..Len(s) : s[i] = "," /\ \A j \in (i + 1)..Len(s) : s[j] # ","
    ELSE 0

\* s up to its last comma, the comma included
UpToLastComma(s) == Slice(s, 1, LastComma(s))

\* the trimmed text after the last comma of s
AfterLastComma(s) == Strip(Slice(s, LastComma(s) + 1, Len(s)))

\* the text of s before its first space or comma
LeadingToken(s) ==
    LET stops == {i \in 1..Len(s) : s[i] = " " \/ s[i] = ","}
    IN  IF stops = {} THEN s
        ELSE Slice(s, 1, (CHOOSE i \in stops : \A j \in stops : i <= j) - 1)

\* the candidates of all_channels that match the query in some tier
Hits(channels, query) ==
    {k \in 1..Len(channels) : TierOf(channels[k].name, query) # 0}

\* the lowest tier in which a candidate matches the query
LowestTier(channels, query) ==
    CHOOSE t \in 1..4 :
        /\ \E k \in Hits(channels, query) : TierOf(channels[k].name, query) = t
        /\ \A k \in Hits(channels, query) : TierOf(channels[k].name, query) >= t

\* the winner of the tiered policy: in the lowest tier with a hit, the first of
\* the candidates of the shortest name
TieredWinner(channels, query) ==
    IF Hits(channels, query) = {} THEN <<>>
    ELSE LET inTier == {k \in Hits(channels, query) :
                           TierOf(channels[k].name, query) = LowestTier(channels, query)}
             shortest == {k \in inTier :
                             \A j \in inTier : Len(channels[k].name) <= Len(channels[j].name)}
         IN  <<channels[CHOOSE k \in shortest : \A j \in shortest : k <= j]>>

\* build_custom_playlist has run its two loops
Built == pc \in {"debug", "save", "saved", "save_failed"}

\* the wanted entry at place k has a match
HasMatch(k) == BestMatch(all_channels, wanted_channels[k]) # <<>>

\* the number of the first k wanted entries that have a match
MatchedUpTo(k) == Cardinality({j \in 1..k : HasMatch(j)})

\* C1: the record match returns is of the lowest tier in which a candidate
\* qualifies: no candidate of a lower tier than the winner's exists (so an exact
\* match, when there is one, is what is returned).  Stated of the candidates that
\* have a name: C3 is about the others.
C1_LowestTierWins ==
    (pc = "matched" /\ best_match_data # <<>>
        /\ \A k \in 1..Len(all_channels) : all_channels[k].name # <<>>) =>
        \A k \in Hits(all_channels, wanted) :
            TierOf(best_match_data[1].name, wanted) <= TierOf(all_channels[k].name, wanted)

\* C2: once build has written its lines, the descriptor line of the wanted entry
\* at place k carries the channel-number tag k, and the prefix of k before its
\* name when prefixes are on.
C2_NumberIsPosition ==
    Built =>
        \A k \in 1..Len(wanted_channels) :
            HasMatch(k) =>
                LET line == playlist_lines[2 * MatchedUpTo(k)]
                IN  /\ Contains(line, S_TVG_CHNO \o Str(k) \o <<DQ>>)
                    /\ (ADD_NUMERIC_PREFIX /\ Contains(line, <<",">>)) =>
                           Contains(line, <<",">> \o Pad3(k) \o <<".", " ">>)

\* C3: a record of a descriptor line without a comma is never what match
\* returns for a query that is not empty.
C3_EmptyNameNeverReturned ==
    (pc = "matched" /\ wanted # <<>> /\ best_match_data # <<>>) =>
        /\ Contains(best_match_data[1].extinf, <<",">>)
        /\ best_match_data[1].name # <<>>

\* C4: cleaning a cleaned name changes nothing.
C4_CleanIdempotent ==
    Len(cleaned) >= 2 => cleaned[2] = cleaned[1]

\* C5: the name of a record is the trimmed text after the last comma of its
\* descriptor line, and the cleaning and the prefix steps rewrite that same text.
C5_NameAfterLastComma ==
    Len(extinf_steps) >= 3 =>
        /\ channel_data.name = (IF Contains(channel_data.extinf, <<",">>)
                                THEN AfterLastComma(channel_data.extinf) ELSE <<>>)
        /\ (CLEAN_CHANNEL_NAMES /\ Contains(extinf_steps[1], <<",">>)) =>
               extinf_steps[2] =
                   UpToLastComma(extinf_steps[1])
                       \o clean_channel_name(AfterLastComma(extinf_steps[1]))
        /\ (ADD_NUMERIC_PREFIX /\ Contains(extinf_steps[2], <<",">>)) =>
               extinf_steps[3] =
                   UpToLastComma(extinf_steps[2])
                       \o Pad3(channel_number) \o <<".", " ">>
                       \o AfterLastComma(extinf_steps[2])

\* C6: the descriptor line, tagged, holds one channel-number attribute, of the
\* value channel_number, right after the leading token of the line.
C6_OneChannelNumberAttribute ==
    \A k \in 1..Len(extinf_steps) :
        /\ CountOf(extinf_steps[k], S_TVG_CHNO) = 1
        /\ PrefixAt(extinf_steps[k],
                    <<" ">> \o S_TVG_CHNO \o Str(channel_number) \o <<DQ>>,
                    Len(LeadingToken(extinf_steps[k])) + 1)

\* C7: with prefixes on, the name of the final descriptor line (the text after
\* its last comma) of a record whose line ends with a comma and a name is the
\* number on three digits, ". ", and the record's name (cleaned when cleaning is
\* on).
C7_NumericPrefix ==
    (Len(extinf_steps) = 4 /\ ADD_NUMERIC_PREFIX
        /\ Contains(channel_data.extinf, <<",">>)
        /\ AfterLastComma(channel_data.extinf) # <<>>
        /\ ~Contains(AfterLastComma(channel_data.extinf), <<DQ>>)) =>
        AfterLastComma(extinf_steps[4]) =
            Pad3(channel_number) \o <<".", " ">>
                \o clean_channel_name(AfterLastComma(channel_data.extinf))

\* C8: in the "unique" mode every descriptor line build emits holds one group
\* attribute, of the value UNIQUE_GROUP_NAME.
C8_UniqueGroupLabel ==
    GROUP_TITLE_MODE = "unique" =>
        \A j \in 1..Len(playlist_lines) :
            j % 2 = 0 =>
                /\ CountOf(playlist_lines[j], S_GROUP_TITLE) = 1
                /\ Contains(playlist_lines[j],
                            S_GROUP_TITLE \o UNIQUE_GROUP_NAME \o <<DQ>>)

\* C9: match returns, of the candidates of the lowest tier with a hit, the first
\* of those of the shortest name, and nothing exactly when no candidate matches.
\* Stated of the candidates that have a name: C3 is about the others.
C9_ShortestInWinningTier ==
    (pc = "matched" /\ \A k \in 1..Len(all_channels) : all_channels[k].name # <<>>) =>
        best_match_data = TieredWinner(all_channels, wanted)

\* C10: the output holds the header and two lines for each wanted entry that has
\* a match, none for the others, and the diagnostics hold one entry for each
\* wanted entry, in order, a success exactly for those that have a match.
C10_LineAndDiagnosticCounts ==
    LET n == Len(wanted_channels)
        hit == [k \in 1..n |-> HasMatch(k)]
        hits(k) == Cardinality({j \in 1..k : hit[j]})
    IN  /\ pc = "match" => Len(debug_matches) = idx
        /\ pc = "write" => Len(playlist_lines) = 1 + 2 * hits(idx)
        /\ Built =>
            /\ Len(playlist_lines) = 1 + 2 * hits(n)
            /\ Len(debug_matches) = n
            /\ \A k \in 1..n :
                /\ debug_matches[k].number = k
                /\ debug_matches[k].wanted = wanted_channels[k]
                /\ debug_matches[k].found = hit[k]
        /\ pc = "saved" => Len(output_file) = 1 + 2 * hits(n)

\* a run that saved a playlist for a wanted list of which one name occurs twice
\* and has a match, and another name has none
C10_Witness ==
    /\ pc = "saved"
    /\ \E j, k \in 1..Len(wanted_channels) :
        j # k /\ wanted_channels[j] = wanted_channels[k] /\ HasMatch(j)
    /\ \E k \in 1..Len(wanted_channels) : ~HasMatch(k)


\* a descriptor line: a line that, trimmed, begins with the descriptor marker
IsDescriptorLine(l) == StartsWith(Strip(l), S_EXTINF)

\* an address line: a line that, trimmed, is not empty and begins with the scheme
IsAddressLine(l) == Strip(l) # <<>> /\ StartsWith(Strip(l), S_HTTP)

\* the line at place k is a descriptor line and the next line is an address line
PairAt(lines, k) ==
    /\ k + 1 <= Len(lines)
    /\ IsDescriptorLine(lines[k])
    /\ IsAddressLine(lines[k + 1])

\* the records of the pairs at the places 1..n, in the order of the text
RECURSIVE PairsUpTo(_, _)
PairsUpTo(lines, n) ==
    IF n = 0 THEN <<>>
    ELSE PairsUpTo(lines, n - 1) \o
         (IF PairAt(lines, n)
          THEN <<[extinf |-> Strip(lines[n]), url |-> Strip(lines[n + 1]),
                  name |-> extract_channel_name(Strip(lines[n]))]>>
          ELSE <<>>)

\* C11: all along the scan the records are those of the descriptor lines read
\* that an address line follows, one each, in the order of the text, with the
\* trimmed text of the address line; a descriptor line that ends the text or
\* that another line follows gives none, and the line after it is read in its
\* turn; at the return the whole text was read.
C11_RecordsAreThePairs ==
    pc \in {"parse_line", "parsed"} =>
        /\ all_channels = PairsUpTo(source_content, idx)
        /\ pc = "parsed" => idx = Len(source_content)

\* a text parsed to the end where an address pair comes right after a descriptor
\* line that has no address
C11_Witness ==
    /\ pc = "parsed"
    /\ \E k \in 1..(Len(source_content) - 2) :
        /\ IsDescriptorLine(source_content[k])
        /\ PairAt(source_content, k + 1)
    /\ IsDescriptorLine(source_content[Len(source_content)])
    /\ Len(all_channels) = 1


\* C12: in the "original" mode the descriptor line the transformer returns is
\* the descriptor line of the matched record, whatever the record, the number and
\* the other two settings.
C12_OriginalModePassthrough ==
    (GROUP_TITLE_MODE = "original" /\ Len(extinf_steps) = 4) =>
        extinf_steps[4] = channel_data.extinf


\* the fetch gave a text: neither None nor the empty text
Fetched == source_content # <<>> /\ source_content # <<<<>>>>

\* C13: a file is written only once the wanted list was loaded, not empty, and
\* then the source text fetched; a run whose wanted-list file is missing ends
\* at once, with no fetch and no file written; a run whose fetch fails ends with
\* the output file and the diagnostics file as they were before the run.
C13_WritesOnlyAfterLoadAndFetch ==
    /\ (output_file # PreviousFile \/ debug_file # PreviousDebugFile) =>
        /\ wanted_channels # <<>>
        /\ Fetched
        /\ pc \in {"save", "saved", "save_failed"}
    /\ output_file # PreviousFile => debug_file # PreviousDebugFile
    /\ (pc = "fetch" \/ source_content # <<>>) => wanted_channels # <<>>
    /\ channels_file = <<>> =>
        /\ pc \in {"load", "returned"}
        /\ source_content = <<>>
    /\ pc = "returned" =>
        /\ wanted_channels = <<>> \/ ~Fetched
        /\ output_file = PreviousFile
        /\ debug_file = PreviousDebugFile
    /\ (pc \notin {"load", "fetch", "returned"}) => wanted_channels # <<>> /\ Fetched

\* a run that loaded a wanted list and ended on a failed fetch
C13_Witness ==
    /\ pc = "returned"
    /\ wanted_channels # <<>>
    /\ source_content = <<>>
    /\ output_file = PreviousFile
    /\ debug_file = PreviousDebugFile


\* the number build gives to the wanted entry at place k: the last place of its
\* name in the wanted list (C2 is about this number)
NumberOf(k) ==
    CHOOSE j \in k..Len(wanted_channels) :
        /\ wanted_channels[j] = wanted_channels[k]
        /\ \A i \in (j + 1)..Len(wanted_channels) :
               wanted_channels[i] # wanted_channels[k]

\* the two lines of the wanted entry at place k: none when it has no match
LinesOf(k) ==
    LET best == BestMatch(all_channels, wanted_channels[k])
    IN  IF best = <<>> THEN <<>>
        ELSE <<Transform(best[1].extinf, NumberOf(k)), clean_url(best[1].url)>>

\* the header, then the lines of the wanted entries at the places 1..n
RECURSIVE OutputUpTo(_)
OutputUpTo(n) ==
    IF n = 0 THEN <<S_EXTM3U>> ELSE OutputUpTo(n - 1) \o LinesOf(n)

\* C14: the output is the header, then, for each wanted entry that has a match,
\* in the order of the wanted list, the transformed descriptor line of the record
\* matched for it and the cleaned URL of that record; a record matched for
\* several entries is there once for each.
C14_OutputInWantedOrder ==
    /\ pc = "write" => playlist_lines = OutputUpTo(idx)
    /\ Built => playlist_lines = OutputUpTo(Len(wanted_channels))
    /\ pc = "saved" => output_file = OutputUpTo(Len(wanted_channels))

\* a saved playlist of two records, in the order of the wanted list and against
\* the order of the source, the second of them matched for two wanted entries
C14_Witness ==
    /\ pc = "saved"
    /\ Len(wanted_channels) = 3
    /\ Len(all_channels) = 2
    /\ Len(output_file) = 7
    /\ BestMatch(all_channels, wanted_channels[1]) = <<all_channels[2]>>
    /\ BestMatch(all_channels, wanted_channels[2]) = <<all_channels[1]>>
    /\ BestMatch(all_channels, wanted_channels[3]) = <<all_channels[1]>>


\* match_channel_strict under the setting flag of CLEAN_CHANNEL_NAMES
MatchesUnder(flag, available_name, wanted_name) ==
    LET avail == Strip(available_name)
        want == Strip(wanted_name)
    IN  \/ avail = want
        \/ Lower(avail) = Lower(want)
        \/ Contains(Lower(avail), Lower(want))
        \/ Contains(Lower(want), Lower(avail))
        \/ Lower(CleanWith(flag, avail)) = Lower(CleanWith(flag, want))

\* the answer of the scan of the first n candidates under the setting flag
RECURSIVE ScanUnder(_, _, _, _)
ScanUnder(flag, channels, wanted_name, n) ==
    IF n = 0 THEN <<>>
    ELSE LET best == ScanUnder(flag, channels, wanted_name, n - 1)
         IN  IF /\ MatchesUnder(flag, channels[n].name, wanted_name)
                /\ (best = <<>> \/ Len(channels[n].name) < Len(best[1].name))
             THEN <<channels[n]>>
             ELSE best

\* C15: what match returns for a query and a candidate sequence under the
\* setting of CLEAN_CHANNEL_NAMES of the run is what it returns under the other
\* setting.
C15_MatchIgnoresCleanSetting ==
    pc = "matched" =>
        best_match_data = ScanUnder(~CLEAN_CHANNEL_NAMES, all_channels, wanted,
                                    Len(all_channels))

====
